---- MODULE Spec2Model ----
(***************************************************************************)
(* MQTT <-> GPIO bridge of wg-scripts (mqtt_gpio/main.py).                 *)
(*                                                                         *)
(* Two threads share the module-level dictionaries NEXT_CHANGE and         *)
(* DISABLE_PIN_CALLBACK: the paho network loop, which runs on_message one  *)
(* message at a time, and the pigpio notification thread, which runs       *)
(* pin_callback one notification at a time.  Every access to shared state  *)
(* (a dictionary, the pin level, the clock) is one step of the model, so   *)
(* that the two handlers interleave as the two threads can.                *)
(***************************************************************************)
EXTENDS Integers, Sequences, FiniteSets, TLC

(***************************************************************************)
(* Bounds of the model.                                                    *)
(***************************************************************************)
\* the clock stops at MaxTime
MaxTime == 2
\* messages, external edges and watchdog timeouts the environment produces
MaxEvents == 2

(***************************************************************************)
(* Program constants.                                                      *)
(***************************************************************************)
\* int(getenv("GPIO_COOLDOWN", "5")), whole seconds; the bridge is run here
\* with GPIO_COOLDOWN=2
COOLDOWN == 2

HOSTNAME == "pi"

\* The members a decoded payload (always a str) can be equal to; the bool and
\* int members True, 1, False, 0 of the tuples compare unequal to every str.
\* ON_VALUES, were the capitalised "True" left out of it
ON_VALUES_lower == {"1", "on", "true"}

ON_VALUES == {"1", "on", "true", "True"}
OFF_VALUES == {"0", "off", "false", "False"}

\* NewPinState
OFF == 0
ON == 1
WATCHDOG_TIMEOUT_NO_CHANGE == 2

QOS == 2

(***************************************************************************)
(* Strings that the code inspects character by character (logical names)   *)
(* are sequences of one-character strings.                                 *)
(***************************************************************************)
LowerAlnum ==
    {"a","b","c","d","e","f","g","h","i","j","k","l","m","n","o","p","q","r",
     "s","t","u","v","w","x","y","z","0","1","2","3","4","5","6","7","8","9"}

\* End positions (exclusive) of the matches of [a-z0-9]+ that start at i.
RECURSIVE AlnumRun(_, _)
AlnumRun(s, i) ==
    IF i > Len(s) \/ s[i] \notin LowerAlnum
    THEN {}
    ELSE {i + 1} \cup AlnumRun(s, i + 1)

\* End positions of the matches of one group [a-z0-9]+-? that starts at i.
KebabGroup(s, i) ==
    LET runs == AlnumRun(s, i)
    IN  runs \cup {j + 1 : j \in {k \in runs : k <= Len(s) /\ s[k] = "-"}}

\* End positions of the matches of (?:[a-z0-9]+-?)+ that start at position 1.
RECURSIVE KebabGroups(_, _, _)
KebabGroups(s, from, n) ==
    IF n = 0
    THEN {}
    ELSE LET step == UNION {KebabGroup(s, i) : i \in from}
         IN  step \cup KebabGroups(s, step, n - 1)

\* KEBAB_PATTERN.fullmatch(s) for ^(?:[a-z0-9]+-?)+[a-z0-9]+$
KEBAB_PATTERN(s) ==
    \E p \in KebabGroups(s, {1}, Len(s)) : (Len(s) + 1) \in AlnumRun(s, p)

(***************************************************************************)
(* Mapping files the bridge may be started with: a list of (name, pin) in  *)
(* file order.                                                             *)
(***************************************************************************)
Entry(n, p) == [name |-> n, pin |-> p]

MappingFiles ==
    { <<Entry(<<"a", "b">>, 17), Entry(<<"c", "-", "d">>, 27)>>,
      <<Entry(<<"a", "b">>, 17), Entry(<<"C", "_", "d">>, 27)>>,
      <<Entry(<<"a">>, 17)>>,
      <<Entry(<<"a", "-">>, 17), Entry(<<"c", "d">>, 27)>> }

AllPins == {17, 27}

VARIABLES
    MAPPING,               \* the loaded gpio_mapping.json
    mainPc,                \* position of main(): start, wire, loop, crashed
    mainIdx,               \* index of the mapping entry main() is wiring
    error,                 \* the exception that ended the process, or "none"
    connectCalls,          \* number of MQTT.connect calls
    subscribed,            \* MQTT.subscribe calls: set of [topic, qos]
    callbacks,             \* pins with PI.callback(pin, EITHER_EDGE, ...)
    now,                   \* time.time()
    level,                 \* electrical level of each pin
    notifications,         \* pigpio notifications not yet delivered
    NEXT_CHANGE,           \* dict pin -> epoch
    DISABLE_PIN_CALLBACK,  \* dict pin -> bool
    om,                    \* the on_message invocation of the network thread
    cb,                    \* the pin_callback invocation of the pigpio thread
    published,             \* MQTT.publish calls, in order
    writes,                \* PI.write calls, in order
    budget,                \* number of environment events still to come
    conn,                  \* state of the connection to the broker
    rc,                    \* reason code of the latest connection callback
    session,               \* topics subscribed on the current connection
    bo,                    \* the retry loop of backoff_reconnect
    edges,                 \* number of external edges each pin has had
    echo                   \* the bridge's own publications handed back to it

vars == <<MAPPING, mainPc, mainIdx, error, connectCalls, subscribed, callbacks,
          now, level, notifications, NEXT_CHANGE, DISABLE_PIN_CALLBACK, om, cb,
          published, writes, budget, conn, rc, session, bo, edges, echo>>

\* the variables of the connection to the broker
net == <<conn, rc, session, bo>>

ledger == <<NEXT_CHANGE, DISABLE_PIN_CALLBACK>>

\* what the world outside the bridge has done so far: neither is read by the
\* code
history == <<edges, echo>>

(***************************************************************************)
(* Python dictionaries: functions on the set of keys present.              *)
(***************************************************************************)
EmptyDict == <<>>

DictGet(d, k, default) == IF k \in DOMAIN d THEN d[k] ELSE default

DictSet(d, k, v) == (k :> v) @@ d

(***************************************************************************)
(* Pin registry.                                                           *)
(***************************************************************************)
Ok(v) == [ok |-> TRUE, val |-> v]
Raise(e) == [ok |-> FALSE, val |-> e]

Min(S) == CHOOSE x \in S : \A y \in S : x <= y

\* the topic, were the gpio segment left out of it
TopicOf_without_gpio(suffix) == <<"", "homeassistant", HOSTNAME, suffix>>

\* f"/homeassistant/{HOSTNAME}/gpio/{suffix}", as the list of its segments
\* between slashes
TopicOf(suffix) == <<"", "homeassistant", HOSTNAME, "gpio", suffix>>

get_topic(pin) ==
    LET found == {i \in DOMAIN MAPPING : MAPPING[i].pin = pin}
    IN  IF found = {} \/ MAPPING[Min(found)].name = <<>>
        THEN Raise("ValueError")
        ELSE LET suffix == MAPPING[Min(found)].name
             IN  IF ~KEBAB_PATTERN(suffix)
                 THEN Raise("ValueError")
                 ELSE Ok(TopicOf(suffix))

\* get_pin, were it to key the mapping by the first segment after the root
get_pin_first_segment(topic) ==
    LET key == topic[2]
        found == {i \in DOMAIN MAPPING : MAPPING[i].name = key}
    IN  IF found = {}
        THEN Raise("KeyError")
        ELSE Ok(MAPPING[CHOOSE i \in found : TRUE].pin)

\* MAPPING[topic.split("/")[-1]]
get_pin(topic) ==
    LET key == topic[Len(topic)]
        found == {i \in DOMAIN MAPPING : MAPPING[i].name = key}
    IN  IF found = {}
        THEN Raise("KeyError")
        ELSE Ok(MAPPING[CHOOSE i \in found : TRUE].pin)

(***************************************************************************)
(* Initial state: module import has run, main() has not started.           *)
(***************************************************************************)
\* A handler that is not running; last is how its latest invocation ended.
IdleMessage(last) == [pc |-> "idle", last |-> last]
IdleCallback(last, gpio) == [pc |-> "idle", last |-> last, gpio |-> gpio]
\* backoff_reconnect is not running
BackoffIdle == [pc |-> "idle"]
\* No publication of the bridge has been handed back to it.  k is the index
\* in published of the latest one handed back, and own tells whether the
\* message on_message was last called with is that one.
NoEcho == [k |-> 0, own |-> FALSE]

\* events is the number of environment events still to come
InitWith(mappings, events) ==
    /\ MAPPING \in mappings
    /\ mainPc = "start"
    /\ mainIdx = 1
    /\ error = "none"
    /\ connectCalls = 0
    /\ subscribed = {}
    /\ callbacks = {}
    /\ now = 0
    /\ level = [p \in AllPins |-> OFF]
    /\ notifications = <<>>
    /\ NEXT_CHANGE = EmptyDict
    /\ DISABLE_PIN_CALLBACK = EmptyDict
    /\ om = IdleMessage("none")
    /\ cb = IdleCallback("none", 0)
    /\ published = <<>>
    /\ writes = <<>>
    /\ budget = events
    /\ conn = "closed"
    /\ rc = 0
    /\ session = {}
    /\ bo = BackoffIdle
    /\ edges = [p \in AllPins |-> 0]
    /\ echo = NoEcho

Init == InitWith(MappingFiles, MaxEvents)

\* the mapping files every name of which passes the check of get_topic
ValidMappingFiles ==
    {m \in MappingFiles : \A i \in DOMAIN m : KEBAB_PATTERN(m[i].name)}

\* a bridge with a valid mapping and one more environment event to come
InitLong == InitWith(ValidMappingFiles, MaxEvents + 1)

Running == mainPc \in {"start", "wire", "loop"}

(***************************************************************************)
(* main()                                                                  *)
(***************************************************************************)
\* MQTT.connect(MQTT_HOST); the mapping file is read again
main_connect ==
    /\ mainPc = "start"
    /\ connectCalls' = connectCalls + 1
    /\ conn' = "connecting"
    /\ mainPc' = "wire"
    /\ UNCHANGED <<history, MAPPING, mainIdx, error, subscribed, callbacks, now, level,
                   notifications, NEXT_CHANGE, DISABLE_PIN_CALLBACK, om, cb,
                   published, writes, budget, rc, session, bo>>

\* one iteration of the loop over the mapping's pins
main_wire ==
    /\ mainPc = "wire"
    /\ mainIdx <= Len(MAPPING)
    /\ LET pin == MAPPING[mainIdx].pin
           topic == get_topic(pin)
       IN  IF topic.ok
           THEN /\ subscribed' = subscribed \cup {[topic |-> topic.val, qos |-> QOS]}
                /\ session' = session \cup {topic.val}
                /\ callbacks' = callbacks \cup {pin}
                /\ mainIdx' = mainIdx + 1
                /\ UNCHANGED <<mainPc, error>>
           ELSE /\ mainPc' = "crashed"
                /\ error' = "get_topic:ValueError"
                /\ UNCHANGED <<subscribed, session, callbacks, mainIdx>>
    /\ UNCHANGED <<history, MAPPING, connectCalls, now, level, notifications, NEXT_CHANGE,
                   DISABLE_PIN_CALLBACK, om, cb, published, writes, budget,
                   conn, rc, bo>>

\* main, were it to enter the loop before every entry has been wired
main_loop_early ==
    /\ mainPc = "wire"
    /\ mainPc' = "loop"
    /\ UNCHANGED <<history, MAPPING, mainIdx, error, connectCalls, subscribed, callbacks,
                   now, level, notifications, NEXT_CHANGE, DISABLE_PIN_CALLBACK,
                   om, cb, published, writes, budget, net>>

\* MQTT.loop_forever()
main_loop ==
    /\ mainPc = "wire"
    /\ mainIdx > Len(MAPPING)
    /\ mainPc' = "loop"
    /\ UNCHANGED <<history, MAPPING, mainIdx, error, connectCalls, subscribed, callbacks,
                   now, level, notifications, NEXT_CHANGE, DISABLE_PIN_CALLBACK,
                   om, cb, published, writes, budget, net>>

(***************************************************************************)
(* on_message: the network thread handles one message at a time.           *)
(***************************************************************************)
\* Payloads on the wire.  BadBytes stands for bytes that are not UTF-8.
BadBytes == "<bad-bytes>"
Payloads == {"on", "off", "True", "0", "ON", BadBytes}

\* message.payload.decode()
decode(payload) ==
    IF payload = BadBytes THEN Raise("UnicodeDecodeError") ELSE Ok(payload)

\* Topics on_message can be handed: the ones subscribed on the connection,
\* one that no mapping entry produces, and one of another root whose last
\* segment is the first name of the mapping.
UnknownTopic == TopicOf(<<"z", "z">>)
ForeignTopic == <<"", "zigbee2mqtt", MAPPING[1].name>>
InboundTopics == session \cup {UnknownTopic, ForeignTopic}

\* the comparison of line 158, were the short-circuit missing
AlreadyInState_never(read, target_state) == FALSE

\* bool(PI.read(gpio)) == target_state
AlreadyInState(read, target_state) == (read # OFF) = target_state

\* the wait, were the deadline itself taken for it
time_to_wait_absolute(gpio) == DictGet(NEXT_CHANGE, gpio, 0)

\* NEXT_CHANGE.get(gpio, 0) - time.time()
time_to_wait(gpio) == DictGet(NEXT_CHANGE, gpio, 0) - now

\* on_message has raised; topic and payload are those of its message
RaisedMessage(topic, payload) ==
    [pc |-> "idle", last |-> "raised", topic |-> topic, payload |-> payload]

\* an uncaught exception leaves loop_forever and main: the process ends
Crash(e) ==
    /\ mainPc' = "crashed"
    /\ error' = e

\* lines 147-160: validate the payload, resolve the pin, read it, compare
on_message_begin(topic, payload) ==
    /\ mainPc = "loop"
    /\ conn = "connected"
    /\ om.pc = "idle"
    /\ budget > 0
    /\ budget' = budget - 1
    /\ LET value == decode(payload)
           gpio == get_pin(topic)
       IN  IF ~value.ok
           THEN Crash("on_message:UnicodeDecodeError")
                /\ om' = RaisedMessage(topic, payload)
           ELSE IF value.val \notin ON_VALUES \cup OFF_VALUES
           THEN Crash("on_message:ValueError")
                /\ om' = RaisedMessage(topic, payload)
           ELSE IF ~gpio.ok
           THEN Crash("get_pin:KeyError")
                /\ om' = RaisedMessage(topic, payload)
           ELSE LET target_state == value.val \in ON_VALUES
                    read == level[gpio.val]
                IN  /\ UNCHANGED <<mainPc, error>>
                    /\ IF AlreadyInState(read, target_state)
                       THEN om' = IdleMessage("already in state")
                       ELSE om' = [pc |-> "cooldown", gpio |-> gpio.val,
                                   target_state |-> target_state,
                                   read |-> read, wake |-> 0,
                                   topic |-> topic, payload |-> payload]
    /\ UNCHANGED <<edges, MAPPING, mainIdx, connectCalls, subscribed, callbacks, now,
                   level, notifications, NEXT_CHANGE, DISABLE_PIN_CALLBACK, cb,
                   published, writes, net>>

\* The broker hands the bridge a message that another client has published.
Deliver(topic, payload) ==
    /\ on_message_begin(topic, payload)
    /\ echo' = [echo EXCEPT !.own = FALSE]

\* the bytes of a boolean payload, were they the JSON literals in capitals
Serialised_upper(payload) == IF payload THEN "TRUE" ELSE "FALSE"

\* line 206: the bytes MQTT.publish sends for the boolean payload of line 194,
\* str(payload).encode()
Serialised(payload) == IF payload THEN "True" ELSE "False"

\* The bridge publishes on the topic it is subscribed to (lines 193 and 217
\* call the same get_topic), so the broker hands a publication that reached it
\* back to the bridge, while the subscription of the connection lasts: each
\* publication once at most, in the order of the MQTT.publish calls.
DeliverOwn(k) ==
    /\ k \in DOMAIN published
    /\ k > echo.k
    /\ published[k].sent
    /\ published[k].topic \in session
    /\ on_message_begin(published[k].topic, Serialised(published[k].payload))
    /\ echo' = [k |-> k, own |-> TRUE]

\* line 163: compute the wait
on_message_cooldown ==
    /\ Running
    /\ om.pc = "cooldown"
    /\ IF time_to_wait(om.gpio) > 0
       THEN om' = [om EXCEPT !.pc = "sleep", !.wake = now + time_to_wait(om.gpio)]
       ELSE om' = [om EXCEPT !.pc = "arm"]
    /\ UNCHANGED <<history, MAPPING, mainPc, mainIdx, error, connectCalls, subscribed,
                   callbacks, now, level, notifications, NEXT_CHANGE,
                   DISABLE_PIN_CALLBACK, cb, published, writes, budget, net>>

\* line 165: time.sleep(time_to_wait) returns once the time has passed
on_message_wake ==
    /\ Running
    /\ om.pc = "sleep"
    /\ now >= om.wake
    /\ om' = [om EXCEPT !.pc = "arm"]
    /\ UNCHANGED <<history, MAPPING, mainPc, mainIdx, error, connectCalls, subscribed,
                   callbacks, now, level, notifications, NEXT_CHANGE,
                   DISABLE_PIN_CALLBACK, cb, published, writes, budget, net>>

\* on_message, were the flag not yet set when it goes on to PI.write
on_message_arm_late ==
    /\ Running
    /\ om.pc = "arm"
    /\ om' = [om EXCEPT !.pc = "write"]
    /\ UNCHANGED <<history, MAPPING, mainPc, mainIdx, error, connectCalls, subscribed,
                   callbacks, now, level, notifications, NEXT_CHANGE,
                   DISABLE_PIN_CALLBACK, cb, published, writes, budget, net>>

\* on_message, were it to set the flag of every pin with a callback
on_message_arm_all ==
    /\ Running
    /\ om.pc = "arm"
    /\ DISABLE_PIN_CALLBACK' =
           [p \in DOMAIN DISABLE_PIN_CALLBACK \cup callbacks |-> TRUE]
    /\ om' = [om EXCEPT !.pc = "write"]
    /\ UNCHANGED <<history, MAPPING, mainPc, mainIdx, error, connectCalls,
                   subscribed, callbacks, now, level, notifications, NEXT_CHANGE,
                   cb, published, writes, budget, net>>

\* line 174: DISABLE_PIN_CALLBACK[gpio] = True
on_message_arm ==
    /\ Running
    /\ om.pc = "arm"
    /\ DISABLE_PIN_CALLBACK' = DictSet(DISABLE_PIN_CALLBACK, om.gpio, TRUE)
    /\ om' = [om EXCEPT !.pc = "write"]
    /\ UNCHANGED <<history, MAPPING, mainPc, mainIdx, error, connectCalls, subscribed,
                   callbacks, now, level, notifications, NEXT_CHANGE, cb,
                   published, writes, budget, net>>

\* The GPIO layer: a change of the electrical level of a pin with a callback
\* registered queues a notification for the pigpio thread.
Notify(pin, new, cause) ==
    IF pin \in callbacks /\ level[pin] # new
    THEN Append(notifications, [gpio |-> pin, level |-> new, cause |-> cause])
    ELSE notifications

\* the level written, were the target state negated on the way
WriteLevel_inverted(target_state) == IF target_state THEN OFF ELSE ON

\* the level pigpio writes for the boolean target_state
WriteLevel(target_state) == IF target_state THEN ON ELSE OFF

\* on_message, were it to write back the level it read at line 158
on_message_write_read ==
    /\ Running
    /\ om.pc = "write"
    /\ LET new == om.read
       IN  /\ writes' = Append(writes, [gpio |-> om.gpio, level |-> new, at |-> now])
           /\ level' = [level EXCEPT ![om.gpio] = new]
           /\ notifications' = Notify(om.gpio, new, "bridge")
    /\ om' = IdleMessage("written")
    /\ UNCHANGED <<history, MAPPING, mainPc, mainIdx, error, connectCalls,
                   subscribed, callbacks, now, NEXT_CHANGE, DISABLE_PIN_CALLBACK,
                   cb, published, budget, net>>

\* line 176: PI.write(gpio, target_state)
on_message_write ==
    /\ Running
    /\ om.pc = "write"
    /\ LET new == WriteLevel(om.target_state)
       IN  /\ writes' = Append(writes, [gpio |-> om.gpio, level |-> new, at |-> now])
           /\ level' = [level EXCEPT ![om.gpio] = new]
           /\ notifications' = Notify(om.gpio, new, "bridge")
    /\ om' = IdleMessage("written")
    /\ UNCHANGED <<history, MAPPING, mainPc, mainIdx, error, connectCalls, subscribed,
                   callbacks, now, NEXT_CHANGE, DISABLE_PIN_CALLBACK, cb,
                   published, budget, net>>

(***************************************************************************)
(* pin_callback: the pigpio thread delivers one notification at a time.    *)
(***************************************************************************)
\* the test of line 183, were it made against a value pigpio never sends
IsWatchdog_wrong_value(lvl) == lvl = 3

\* line 183: level == NewPinState.WATCHDOG_TIMEOUT_NO_CHANGE
IsWatchdog(lvl) == lvl = WATCHDOG_TIMEOUT_NO_CHANGE

\* the test of line 188, were the publish path gated by the cooldown too
Suppressed_or_cooling(gpio) ==
    DictGet(DISABLE_PIN_CALLBACK, gpio, FALSE) \/ now < DictGet(NEXT_CHANGE, gpio, 0)

\* line 188: DISABLE_PIN_CALLBACK.get(gpio)
Suppressed(gpio) == DictGet(DISABLE_PIN_CALLBACK, gpio, FALSE)

\* the deadline, were the time of the callback subtracted
Deadline_countdown(t) == COOLDOWN - t

\* line 186: time.time() + COOLDOWN
Deadline(t) == t + COOLDOWN

\* pin_callback, were the cooldown recorded only for an edge that is not
\* suppressed
pin_callback_begin_unsuppressed ==
    /\ Running
    /\ cb.pc = "idle"
    /\ notifications # <<>>
    /\ LET n == Head(notifications)
       IN  IF IsWatchdog(n.level)
           THEN /\ cb' = IdleCallback("watchdog", n.gpio)
                /\ UNCHANGED NEXT_CHANGE
           ELSE /\ NEXT_CHANGE' = IF Suppressed(n.gpio)
                                   THEN NEXT_CHANGE
                                   ELSE DictSet(NEXT_CHANGE, n.gpio, Deadline(now))
                /\ cb' = [pc |-> "check", gpio |-> n.gpio, level |-> n.level,
                          cause |-> n.cause,
                          cooling |-> now < DictGet(NEXT_CHANGE, n.gpio, 0)]
    /\ notifications' = Tail(notifications)
    /\ UNCHANGED <<history, MAPPING, mainPc, mainIdx, error, connectCalls, subscribed,
                   callbacks, now, level, DISABLE_PIN_CALLBACK, om, published,
                   writes, budget, net>>

\* lines 183-186: drop a watchdog notification, else record the cooldown
pin_callback_begin ==
    /\ Running
    /\ cb.pc = "idle"
    /\ notifications # <<>>
    /\ LET n == Head(notifications)
       IN  IF IsWatchdog(n.level)
           THEN /\ cb' = IdleCallback("watchdog", n.gpio)
                /\ UNCHANGED NEXT_CHANGE
           ELSE /\ NEXT_CHANGE' = DictSet(NEXT_CHANGE, n.gpio, Deadline(now))
                /\ cb' = [pc |-> "check", gpio |-> n.gpio, level |-> n.level,
                          cause |-> n.cause,
                          cooling |-> now < DictGet(NEXT_CHANGE, n.gpio, 0)]
    /\ notifications' = Tail(notifications)
    /\ UNCHANGED <<history, MAPPING, mainPc, mainIdx, error, connectCalls, subscribed,
                   callbacks, now, level, DISABLE_PIN_CALLBACK, om, published,
                   writes, budget, net>>

\* line 188: if DISABLE_PIN_CALLBACK.get(gpio)
pin_callback_check ==
    /\ Running
    /\ cb.pc = "check"
    /\ cb' = [cb EXCEPT !.pc = IF Suppressed(cb.gpio) THEN "clear" ELSE "publish"]
    /\ UNCHANGED <<history, MAPPING, mainPc, mainIdx, error, connectCalls, subscribed,
                   callbacks, now, level, notifications, NEXT_CHANGE,
                   DISABLE_PIN_CALLBACK, om, published, writes, budget, net>>

\* pin_callback, were it to clear the flag of every pin
pin_callback_clear_all ==
    /\ Running
    /\ cb.pc = "clear"
    /\ DISABLE_PIN_CALLBACK' =
           [p \in DOMAIN DISABLE_PIN_CALLBACK \cup {cb.gpio} |-> FALSE]
    /\ cb' = IdleCallback("suppressed", cb.gpio)
    /\ UNCHANGED <<history, MAPPING, mainPc, mainIdx, error, connectCalls, subscribed,
                   callbacks, now, level, notifications, NEXT_CHANGE, om,
                   published, writes, budget, net>>

\* lines 189-191: DISABLE_PIN_CALLBACK[gpio] = False; return
pin_callback_clear ==
    /\ Running
    /\ cb.pc = "clear"
    /\ DISABLE_PIN_CALLBACK' = DictSet(DISABLE_PIN_CALLBACK, cb.gpio, FALSE)
    /\ cb' = IdleCallback("suppressed", cb.gpio)
    /\ UNCHANGED <<history, MAPPING, mainPc, mainIdx, error, connectCalls, subscribed,
                   callbacks, now, level, notifications, NEXT_CHANGE, om,
                   published, writes, budget, net>>

\* The MQTT.publish call of the running callback.  gpio, cause and cooling are
\* not arguments of the call: they record which edge the call was made for.
\* sent is the outcome: with no connection to the broker the call fails, and
\* its return value is not looked at.
Publication(c) ==
    [topic |-> get_topic(c.gpio).val, payload |-> (c.level # OFF),
     retain |-> TRUE, qos |-> QOS,
     gpio |-> c.gpio, cause |-> c.cause, cooling |-> c.cooling,
     sent |-> (conn = "connected")]

\* pin_callback, were a failed publish to take the recorded cooldown back
pin_callback_publish_rollback ==
    /\ Running
    /\ cb.pc = "publish"
    /\ get_topic(cb.gpio).ok
    /\ published' = Append(published, Publication(cb))
    /\ NEXT_CHANGE' = IF conn = "connected"
                       THEN NEXT_CHANGE
                       ELSE DictSet(NEXT_CHANGE, cb.gpio, 0)
    /\ cb' = IdleCallback("published", cb.gpio)
    /\ UNCHANGED <<history, MAPPING, mainPc, mainIdx, error, connectCalls, subscribed,
                   callbacks, now, level, notifications, DISABLE_PIN_CALLBACK,
                   om, writes, budget, net>>

\* lines 193-206: MQTT.publish(topic, bool(level), retain=True, qos=2)
pin_callback_publish ==
    /\ Running
    /\ cb.pc = "publish"
    /\ get_topic(cb.gpio).ok
    /\ published' = Append(published, Publication(cb))
    /\ cb' = IdleCallback("published", cb.gpio)
    /\ UNCHANGED <<history, MAPPING, mainPc, mainIdx, error, connectCalls, subscribed,
                   callbacks, now, level, notifications, NEXT_CHANGE,
                   DISABLE_PIN_CALLBACK, om, writes, budget, net>>

(***************************************************************************)
(* The connection callbacks.  paho calls them on the network thread, the   *)
(* one that runs on_message, so none starts while on_message is running.   *)
(* The client is made with the defaults (clean session, no client id): the *)
(* broker keeps no subscription of a connection that has ended.            *)
(***************************************************************************)
\* reason codes handed to the callbacks: success and a failure
ReasonCodes == {0, 128}

\* lines 109-115: the branch on rc only chooses what is logged
on_connect(code) ==
    /\ mainPc = "loop"
    /\ om.pc = "idle"
    /\ conn = "connecting"
    /\ rc' = code
    /\ conn' = IF code = 0 THEN "connected" ELSE "refused"
    /\ UNCHANGED <<history, MAPPING, mainPc, mainIdx, error, connectCalls, subscribed,
                   callbacks, now, level, notifications, NEXT_CHANGE,
                   DISABLE_PIN_CALLBACK, om, cb, published, writes, budget,
                   session, bo>>

\* the test of line 127, were every disconnect answered by a reconnect
Unexpected_always(code) == TRUE

\* line 127: rc != 0
Unexpected(code) == code # 0

\* on_disconnect, were it to start from an empty ledger after a disconnect
on_disconnect_clearing(code) ==
    /\ mainPc = "loop"
    /\ om.pc = "idle"
    /\ conn \in {"connected", "refused"}
    /\ budget > 0
    /\ budget' = budget - 1
    /\ rc' = code
    /\ session' = {}
    /\ conn' = IF Unexpected(code) THEN "reconnecting" ELSE "disconnected"
    /\ NEXT_CHANGE' = EmptyDict
    /\ DISABLE_PIN_CALLBACK' = EmptyDict
    /\ UNCHANGED <<history, MAPPING, mainPc, mainIdx, error, connectCalls, subscribed,
                   callbacks, now, level, notifications, om, cb, published,
                   writes, bo>>

\* lines 118-131: the connection has ended; if rc != 0, backoff_reconnect()
on_disconnect(code) ==
    /\ mainPc = "loop"
    /\ om.pc = "idle"
    /\ conn \in {"connected", "refused"}
    /\ budget > 0
    /\ budget' = budget - 1
    /\ rc' = code
    /\ session' = {}
    /\ conn' = IF Unexpected(code) THEN "reconnecting" ELSE "disconnected"
    /\ UNCHANGED <<history, MAPPING, mainPc, mainIdx, error, connectCalls, subscribed,
                   callbacks, now, level, notifications, NEXT_CHANGE,
                   DISABLE_PIN_CALLBACK, om, cb, published, writes, bo>>

\* lines 134-137, the retry loop seen from outside: MQTT.reconnect() has
\* succeeded and backoff_reconnect returns.  Nothing is subscribed again.
backoff_reconnect_returns ==
    /\ mainPc = "loop"
    /\ conn = "reconnecting"
    /\ bo = BackoffIdle
    /\ conn' = "connecting"
    /\ UNCHANGED <<history, MAPPING, mainPc, mainIdx, error, connectCalls, subscribed,
                   callbacks, now, level, notifications, NEXT_CHANGE,
                   DISABLE_PIN_CALLBACK, om, cb, published, writes, budget,
                   rc, session, bo>>

\* lines 134-137, the retry loop seen from outside: it has given up and the
\* exception of the last attempt leaves on_disconnect
backoff_reconnect_raises ==
    /\ mainPc = "loop"
    /\ conn = "reconnecting"
    /\ bo = BackoffIdle
    /\ Crash("backoff_reconnect:OSError")
    /\ UNCHANGED <<history, MAPPING, mainIdx, connectCalls, subscribed, callbacks, now,
                   level, notifications, NEXT_CHANGE, DISABLE_PIN_CALLBACK, om,
                   cb, published, writes, budget, net>>

(***************************************************************************)
(* The retry loop of backoff_reconnect, unfolded.  The backoff decorator   *)
(* comes from the wg_utilities package, whose code is not in the           *)
(* repository; the repository fixes its arguments, max_delay and timeout.  *)
(* The loop is modelled as the specification describes it: the wait        *)
(* between attempts grows exponentially up to max_delay, and an attempt    *)
(* that fails once timeout seconds have passed is the last one, its        *)
(* exception leaving backoff_reconnect.  Time is counted in seconds from   *)
(* the call of backoff_reconnect.                                          *)
(***************************************************************************)
\* line 134: timeout=120
TIMEOUT == 120

\* the cap on the wait, were the timeout passed as max_delay too
MAX_DELAY_timeout == TIMEOUT

\* line 134: max_delay=10
MAX_DELAY == 10

\* the first wait, in seconds
FirstDelay == 1

\* seconds that one call of MQTT.reconnect() can take
AttemptSeconds == {0, 1, 5}

\* factors by which a wait can exceed the one before
Factors == {2, 3}

MinOf(a, b) == IF a <= b THEN a ELSE b

NextDelay(delay, factor) == MinOf(delay * factor, MAX_DELAY)

\* backoff_reconnect has just been called
BackoffStart == [pc |-> "try", tries |-> 0, delay |-> FirstDelay, elapsed |-> 0]

\* line 137: MQTT.reconnect() returns, and so does backoff_reconnect
backoff_try_ok(seconds) ==
    /\ mainPc = "loop"
    /\ conn = "reconnecting"
    /\ bo.pc = "try"
    /\ bo' = [bo EXCEPT !.pc = "returned", !.tries = @ + 1, !.elapsed = @ + seconds]
    /\ conn' = "connecting"
    /\ UNCHANGED <<history, MAPPING, mainPc, mainIdx, error, connectCalls, subscribed,
                   callbacks, now, level, notifications, NEXT_CHANGE,
                   DISABLE_PIN_CALLBACK, om, cb, published, writes, budget,
                   rc, session>>

\* line 137: MQTT.reconnect() raises; the loop waits, or gives up when the
\* timeout has passed
backoff_try_fail(seconds) ==
    /\ mainPc = "loop"
    /\ conn = "reconnecting"
    /\ bo.pc = "try"
    /\ LET elapsed == bo.elapsed + seconds
       IN  IF elapsed >= TIMEOUT
           THEN /\ bo' = [bo EXCEPT !.pc = "raised", !.tries = @ + 1,
                                    !.elapsed = elapsed]
                /\ Crash("backoff_reconnect:OSError")
           ELSE /\ bo' = [bo EXCEPT !.pc = "sleep", !.tries = @ + 1,
                                    !.elapsed = elapsed]
                /\ UNCHANGED <<mainPc, error>>
    /\ UNCHANGED <<history, MAPPING, mainIdx, connectCalls, subscribed, callbacks, now,
                   level, notifications, NEXT_CHANGE, DISABLE_PIN_CALLBACK, om,
                   cb, published, writes, budget, conn, rc, session>>

\* the wait before the next attempt
backoff_sleep(factor) ==
    /\ mainPc = "loop"
    /\ conn = "reconnecting"
    /\ bo.pc = "sleep"
    /\ bo' = [bo EXCEPT !.pc = "try", !.elapsed = @ + bo.delay,
                        !.delay = NextDelay(@, factor)]
    /\ UNCHANGED <<history, MAPPING, mainPc, mainIdx, error, connectCalls, subscribed,
                   callbacks, now, level, notifications, NEXT_CHANGE,
                   DISABLE_PIN_CALLBACK, om, cb, published, writes, budget,
                   conn, rc, session>>

\* the bridge in its loop, at the call of backoff_reconnect: the connection
\* has just ended with a non-zero reason code
InitBackoff ==
    /\ MAPPING \in ValidMappingFiles
    /\ mainPc = "loop"
    /\ mainIdx = Len(MAPPING) + 1
    /\ error = "none"
    /\ connectCalls = 1
    /\ subscribed = {[topic |-> TopicOf(MAPPING[i].name), qos |-> QOS] :
                        i \in DOMAIN MAPPING}
    /\ callbacks = {MAPPING[i].pin : i \in DOMAIN MAPPING}
    /\ now = 0
    /\ level = [p \in AllPins |-> OFF]
    /\ notifications = <<>>
    /\ NEXT_CHANGE = EmptyDict
    /\ DISABLE_PIN_CALLBACK = EmptyDict
    /\ om = IdleMessage("none")
    /\ cb = IdleCallback("none", 0)
    /\ published = <<>>
    /\ writes = <<>>
    /\ budget = MaxEvents - 1
    /\ conn = "reconnecting"
    /\ rc = 128
    /\ session = {}
    /\ bo = BackoffStart
    /\ edges = [p \in AllPins |-> 0]
    /\ echo = NoEcho

NextBackoff ==
    \/ \E seconds \in AttemptSeconds : backoff_try_ok(seconds)
    \/ \E seconds \in AttemptSeconds : backoff_try_fail(seconds)
    \/ \E factor \in Factors : backoff_sleep(factor)

\* the network thread is never stopped for good in the middle of the loop
SpecBackoff == InitBackoff /\ [][NextBackoff]_vars /\ WF_vars(NextBackoff)

(***************************************************************************)
(* The environment: the world outside the bridge flips a pin that the      *)
(* bridge watches, the GPIO layer reports a watchdog timeout, time passes. *)
(***************************************************************************)
ExternalEdge(pin) ==
    /\ Running
    /\ pin \in callbacks
    /\ budget > 0
    /\ budget' = budget - 1
    /\ LET new == IF level[pin] = OFF THEN ON ELSE OFF
       IN  /\ level' = [level EXCEPT ![pin] = new]
           /\ notifications' = Notify(pin, new, "ext")
    /\ edges' = [edges EXCEPT ![pin] = @ + 1]
    /\ UNCHANGED <<echo, MAPPING, mainPc, mainIdx, error, connectCalls, subscribed,
                   callbacks, now, NEXT_CHANGE, DISABLE_PIN_CALLBACK, om, cb,
                   published, writes, net>>

WatchdogTimeout(pin) ==
    /\ Running
    /\ pin \in callbacks
    /\ budget > 0
    /\ budget' = budget - 1
    /\ notifications' = Append(notifications,
                               [gpio |-> pin, level |-> WATCHDOG_TIMEOUT_NO_CHANGE,
                                cause |-> "watchdog"])
    /\ UNCHANGED <<history, MAPPING, mainPc, mainIdx, error, connectCalls, subscribed,
                   callbacks, now, level, NEXT_CHANGE, DISABLE_PIN_CALLBACK, om,
                   cb, published, writes, net>>

Tick ==
    /\ Running
    /\ now < MaxTime
    /\ now' = now + 1
    /\ UNCHANGED <<history, MAPPING, mainPc, mainIdx, error, connectCalls, subscribed,
                   callbacks, level, notifications, NEXT_CHANGE,
                   DISABLE_PIN_CALLBACK, om, cb, published, writes, budget, net>>

Next ==
    \/ main_connect
    \/ main_wire
    \/ main_loop
    \/ \E topic \in InboundTopics, payload \in Payloads :
           Deliver(topic, payload)
    \/ \E k \in DOMAIN published : DeliverOwn(k)
    \/ on_message_cooldown
    \/ on_message_wake
    \/ on_message_arm
    \/ on_message_write
    \/ pin_callback_begin
    \/ pin_callback_check
    \/ pin_callback_clear
    \/ pin_callback_publish
    \/ \E code \in ReasonCodes : on_connect(code)
    \/ \E code \in ReasonCodes : on_disconnect(code)
    \/ backoff_reconnect_returns
    \/ backoff_reconnect_raises
    \/ \E pin \in AllPins : ExternalEdge(pin)
    \/ \E pin \in AllPins : WatchdogTimeout(pin)
    \/ Tick

Spec == Init /\ [][Next]_vars

SpecLong == InitLong /\ [][Next]_vars

(***************************************************************************)
(* One message, of any payload, handed to a bridge that is in its loop and *)
(* connected, with the pins at any levels.                                 *)
(***************************************************************************)
AllPayloads ==
    {"1", "on", "true", "True", "0", "off", "false", "False",
     "ON", "TRUE", "FALSE", "yes", "", BadBytes}

InitPayload ==
    /\ MAPPING \in ValidMappingFiles
    /\ mainPc = "loop"
    /\ mainIdx = Len(MAPPING) + 1
    /\ error = "none"
    /\ connectCalls = 1
    /\ subscribed = {[topic |-> TopicOf(MAPPING[i].name), qos |-> QOS] :
                        i \in DOMAIN MAPPING}
    /\ callbacks = {MAPPING[i].pin : i \in DOMAIN MAPPING}
    /\ now = 0
    /\ level \in [AllPins -> {OFF, ON}]
    /\ notifications = <<>>
    /\ NEXT_CHANGE = EmptyDict
    /\ DISABLE_PIN_CALLBACK = EmptyDict
    /\ om = IdleMessage("none")
    /\ cb = IdleCallback("none", 0)
    /\ published = <<>>
    /\ writes = <<>>
    /\ budget = 1
    /\ conn = "connected"
    /\ rc = 0
    /\ session = {TopicOf(MAPPING[i].name) : i \in DOMAIN MAPPING}
    /\ bo = BackoffIdle
    /\ edges = [p \in AllPins |-> 0]
    /\ echo = NoEcho

NextPayload ==
    \/ \E topic \in InboundTopics, payload \in AllPayloads :
           Deliver(topic, payload)
    \/ on_message_cooldown
    \/ on_message_arm
    \/ on_message_write
    \/ pin_callback_begin
    \/ pin_callback_check
    \/ pin_callback_clear
    \/ Tick

SpecPayload == InitPayload /\ [][NextPayload]_vars

(***************************************************************************)
(* The two handlers of a bridge that is in its loop and connected, with    *)
(* time passing for as long as on_message sleeps.  The network thread is   *)
(* not stopped for good in the middle of on_message: nothing but an        *)
(* exception of its own callbacks ends loop_forever.                       *)
(***************************************************************************)
\* line 165: time passes while on_message is in time.sleep
Sleeping ==
    /\ Running
    /\ om.pc = "sleep"
    /\ now < om.wake
    /\ now' = now + 1
    /\ UNCHANGED <<history, MAPPING, mainPc, mainIdx, error, connectCalls,
                   subscribed, callbacks, level, notifications, NEXT_CHANGE,
                   DISABLE_PIN_CALLBACK, om, cb, published, writes, budget, net>>

InitWait ==
    /\ MAPPING \in ValidMappingFiles
    /\ mainPc = "loop"
    /\ mainIdx = Len(MAPPING) + 1
    /\ error = "none"
    /\ connectCalls = 1
    /\ subscribed = {[topic |-> TopicOf(MAPPING[i].name), qos |-> QOS] :
                        i \in DOMAIN MAPPING}
    /\ callbacks = {MAPPING[i].pin : i \in DOMAIN MAPPING}
    /\ now = 0
    /\ level = [p \in AllPins |-> OFF]
    /\ notifications = <<>>
    /\ NEXT_CHANGE = EmptyDict
    /\ DISABLE_PIN_CALLBACK = EmptyDict
    /\ om = IdleMessage("none")
    /\ cb = IdleCallback("none", 0)
    /\ published = <<>>
    /\ writes = <<>>
    /\ budget = MaxEvents
    /\ conn = "connected"
    /\ rc = 0
    /\ session = {TopicOf(MAPPING[i].name) : i \in DOMAIN MAPPING}
    /\ bo = BackoffIdle
    /\ edges = [p \in AllPins |-> 0]
    /\ echo = NoEcho

\* a command for the high level, one for the low level, and a payload that
\* on_message rejects
WaitPayloads == {"on", "0", "ON"}

NextWait ==
    \/ \E topic \in session, payload \in WaitPayloads :
           Deliver(topic, payload)
    \/ on_message_cooldown
    \/ on_message_wake
    \/ on_message_arm
    \/ on_message_write
    \/ pin_callback_begin
    \/ pin_callback_check
    \/ pin_callback_clear
    \/ pin_callback_publish
    \/ \E pin \in AllPins : ExternalEdge(pin)
    \/ Tick
    \/ Sleeping

SpecWait ==
    /\ InitWait
    /\ [][NextWait]_vars
    /\ WF_vars(on_message_cooldown)
    /\ WF_vars(on_message_wake)
    /\ WF_vars(on_message_arm)
    /\ WF_vars(on_message_write)
    /\ WF_vars(Sleeping)

(***************************************************************************)
(* Properties.                                                             *)
(***************************************************************************)
Last(seq) == seq[Len(seq)]

\* the steps of the two handlers
MessageBegins ==
    /\ mainPc = "loop"
    /\ om.pc = "idle"
    /\ budget' # budget
    /\ notifications' = notifications
CallbackReturns == cb.pc # "idle" /\ cb'.pc = "idle"
WatchdogDelivered ==
    /\ cb.pc = "idle"
    /\ notifications # <<>>
    /\ Head(notifications).level = WATCHDOG_TIMEOUT_NO_CHANGE
    /\ notifications' = Tail(notifications)

\* C1: echo suppression: no MQTT.publish call is ever made for an edge that a
\* PI.write of on_message caused, whatever the interleaving of the handlers.
C1_EchoSuppression ==
    \A i \in DOMAIN published : published[i].cause # "bridge"

\* C2: no external change is swallowed: whenever pin_callback returns from an
\* edge that the bridge did not cause, it has just published the new level
\* on that pin's topic.
C2_ExternalEdgePublished ==
    [][(CallbackReturns /\ cb.cause = "ext")
        => /\ Len(published') = Len(published) + 1
           /\ Last(published').topic = TopicOf(MAPPING[CHOOSE i \in DOMAIN MAPPING :
                                                     MAPPING[i].pin = cb.gpio].name)
           /\ Last(published').payload = (cb.level = ON)]_vars

\* C3: cooldown on writes: two PI.write calls of on_message on the same pin
\* are never less than COOLDOWN apart.
C3_CooldownBetweenWrites ==
    \A i, j \in DOMAIN writes :
        (i < j /\ writes[i].gpio = writes[j].gpio)
            => writes[j].at >= writes[i].at + COOLDOWN

\* C4: idempotent no-op: a command whose target level equals the level read
\* never gets past the comparison (only a command whose target differs goes
\* on to the cooldown, the flag and the write), and the step that reads and
\* compares makes no PI.write, no MQTT.publish and no change to NEXT_CHANGE
\* or DISABLE_PIN_CALLBACK.
C4_IdempotentNoOp ==
    /\ [](om.pc # "idle" => (om.read # OFF) # om.target_state)
    /\ [][MessageBegins
           => UNCHANGED <<NEXT_CHANGE, DISABLE_PIN_CALLBACK, writes, published, level>>]_vars

C4_Witness ==
    /\ om.pc = "idle"
    /\ om.last = "already in state"
    /\ mainPc = "loop"

\* C5: a watchdog notification never gets past the first test of pin_callback
\* and its delivery publishes nothing and leaves NEXT_CHANGE and
\* DISABLE_PIN_CALLBACK as they were, an armed flag included.
C5_WatchdogDiscarded ==
    /\ [](cb.pc # "idle" => cb.level # WATCHDOG_TIMEOUT_NO_CHANGE)
    /\ [][WatchdogDelivered
           => UNCHANGED <<NEXT_CHANGE, DISABLE_PIN_CALLBACK, published>>]_vars

C5_Witness ==
    /\ cb.pc = "idle"
    /\ cb.last = "watchdog"
    /\ DictGet(DISABLE_PIN_CALLBACK, cb.gpio, FALSE)

\* C6: registry round trip: for every pin of the mapping that get_topic
\* gives a topic, get_pin of that topic is the pin and get_topic of that pin
\* is the topic again; once main is in its receive loop that is every pin of
\* the mapping.
C6_RegistryRoundTrip ==
    /\ \A i \in DOMAIN MAPPING :
           LET pin == MAPPING[i].pin
               topic == get_topic(pin)
           IN  topic.ok =>
                   /\ get_pin(topic.val) = Ok(pin)
                   /\ get_topic(get_pin(topic.val).val) = topic
    /\ mainPc = "loop" => \A i \in DOMAIN MAPPING : get_topic(MAPPING[i].pin).ok

C6_Witness ==
    /\ mainPc = "loop"
    /\ Len(MAPPING) = 2
    /\ om.pc = "write"
    /\ get_pin(get_topic(om.gpio).val) = Ok(om.gpio)

\* C7: asymmetric gating: pin_callback has no waiting step, and for an edge
\* that arrives while the pin's deadline is in the future it goes on to publish
\* exactly when the suppression flag is not set, and then publishes at once.
C7_PublishNotCooldownGated ==
    /\ [](cb.pc \in {"idle", "check", "clear", "publish"})
    /\ [][(cb.pc = "check" /\ cb.cooling /\ cb' # cb)
           => (cb'.pc = "publish") = ~DictGet(DISABLE_PIN_CALLBACK, cb.gpio, FALSE)]_vars
    /\ [][(cb.pc = "publish" /\ cb.cooling /\ cb' # cb)
           => /\ published' = Append(published, Publication(cb))
              /\ now' = now]_vars

C7_Witness ==
    \E i \in DOMAIN published :
        /\ published[i].cause = "ext"
        /\ published[i].cooling
        /\ published[i].topic = get_topic(published[i].gpio).val

\* C8: an invalid payload is recoverable: the error raised for a payload that
\* is none of the recognised tokens never ends the process.
C8_InvalidPayloadRecoverable ==
    mainPc = "crashed" => error # "on_message:ValueError"

\* C9: an unknown topic is recoverable: the error raised for a topic whose
\* last segment is not a key of the mapping never ends the process.
C9_UnknownTopicRecoverable ==
    mainPc = "crashed" => error # "get_pin:KeyError"

\* C10: configuration errors are detected before any network activity: with
\* a name in the mapping that fails the kebab-case check, MQTT.connect is
\* never called and no topic is ever subscribed.
C10_ConfigCheckedBeforeNetwork ==
    (\E i \in DOMAIN MAPPING : ~KEBAB_PATTERN(MAPPING[i].name))
        => (connectCalls = 0 /\ subscribed = {})

\* the topics of the entries of the mapping
ConfiguredTopics == {TopicOf(MAPPING[i].name) : i \in DOMAIN MAPPING}

\* C11: whenever the connection is in the Connected state, after the first
\* connect as after every reconnect, the subscriptions of the connection are
\* those of every topic of the mapping.
C11_SubscribedWheneverConnected ==
    conn = "connected" => session = ConfiguredTopics

\* the step in which on_disconnect is called
ConnectionEnds == conn \in {"connected", "refused"} /\ conn' # conn

\* C12: a disconnect with a non-zero reason code starts backoff_reconnect; a
\* disconnect with reason code 0 starts no reconnect, then or later.
C12_ReconnectIffUnexpected ==
    /\ [][ConnectionEnds => (conn' = "reconnecting") = (rc' # 0)]_vars
    /\ [][ConnectionEnds => conn' \in {"reconnecting", "disconnected"}]_vars
    /\ [][conn = "disconnected" => conn' = "disconnected"]_vars

C12_Witness == conn = "reconnecting" /\ rc # 0 /\ session = {}

ConnectionStep ==
    /\ mainPc = "loop"
    /\ \/ conn' # conn
       \/ rc' # rc
       \/ (error' # error /\ error' = "backoff_reconnect:OSError")

\* C14: on_connect, on_disconnect and backoff_reconnect leave NEXT_CHANGE and
\* DISABLE_PIN_CALLBACK as they were, so the time a command for a pin has to
\* wait is the same after a disconnect and a reconnect as before.
C14_LedgerSurvivesConnection ==
    /\ [][ConnectionStep => UNCHANGED ledger]_vars
    /\ [][ConnectionStep =>
            \A pin \in AllPins : time_to_wait(pin)' = time_to_wait(pin)]_vars

\* the bridge has reconnected while a pin is cooling down
C14_Witness ==
    /\ conn = "connected"
    /\ session = {}
    /\ \E pin \in DOMAIN NEXT_CHANGE : NEXT_CHANGE[pin] > now

\* C15: the wait of a command does not hold back the commands of other pins:
\* while on_message sleeps for a pin and the broker has a command for
\* another pin to deliver, on_message can begin for that command.
C15_WaitIsPerCommand ==
    (mainPc = "loop" /\ conn = "connected" /\ om.pc = "sleep" /\ budget > 0)
        => \A topic \in session :
               get_pin(topic).val # om.gpio
                   => ENABLED on_message_begin(topic, "on")

\* C16: every PI.write is the last step of one accepted command, made to the
\* pin its topic resolves to and with the level its payload asks for, and an
\* accepted command returns only by making that one write; a command that is
\* rejected or finds the pin in the target state makes none.
C16_OneWritePerAcceptedCommand ==
    /\ [](om.pc # "idle" =>
            /\ get_pin(om.topic) = Ok(om.gpio)
            /\ om.target_state = (decode(om.payload).val \in ON_VALUES))
    /\ [][writes' # writes =>
            /\ om.pc = "write"
            /\ om'.pc = "idle"
            /\ writes' = Append(writes,
                                [gpio |-> om.gpio,
                                 level |-> IF om.target_state THEN ON ELSE OFF,
                                 at |-> now])]_vars
    /\ [][(om.pc # "idle" /\ om'.pc = "idle") =>
            (om.pc = "write" /\ Len(writes') = Len(writes) + 1)]_vars

C16_Witness ==
    /\ om.pc = "idle"
    /\ om.last = "written"
    /\ Len(writes) = 2
    /\ writes[1].level = ON
    /\ writes[2].level = OFF

\* C17: for an edge that the bridge did not cause, pin_callback sets the
\* pin's deadline to the time of the callback plus COOLDOWN, leaves it there
\* until it returns, and returns having made exactly one MQTT.publish call:
\* on the topic of the pin, with payload bool(level), retained, at QoS 1 or
\* more.
C17_ExternalEdgePublication ==
    /\ [][(cb.pc = "idle" /\ cb'.pc # "idle" /\ cb'.cause = "ext")
            => NEXT_CHANGE' = DictSet(NEXT_CHANGE, cb'.gpio, now + COOLDOWN)]_vars
    /\ [][(cb.pc # "idle" /\ cb.cause = "ext") => NEXT_CHANGE' = NEXT_CHANGE]_vars
    /\ [][(cb.pc # "idle" /\ cb.cause = "ext" /\ cb'.pc # "idle")
            => published' = published]_vars
    /\ [][(CallbackReturns /\ cb.cause = "ext")
            => /\ Len(published') = Len(published) + 1
               /\ SubSeq(published', 1, Len(published)) = published
               /\ Last(published').topic = get_topic(cb.gpio).val
               /\ Last(published').payload = (cb.level # OFF)
               /\ Last(published').retain
               /\ Last(published').qos >= 1]_vars

\* the pattern ^[a-z0-9]+(-[a-z0-9]+)*$ : runs of lower-case letters and
\* digits, joined by single hyphens
KebabReference(s) ==
    /\ Len(s) >= 1
    /\ \A i \in DOMAIN s : s[i] \in LowerAlnum \cup {"-"}
    /\ s[1] # "-"
    /\ s[Len(s)] # "-"
    /\ \A i \in 1..(Len(s) - 1) : ~(s[i] = "-" /\ s[i + 1] = "-")

\* C18: get_topic succeeds for a pin exactly when the pin's name matches
\* ^[a-z0-9]+(-[a-z0-9]+)*$ : main raises at an entry only if its name does
\* not match, and every entry main has got past has a name that matches.
C18_KebabMatchesReference ==
    /\ error = "get_topic:ValueError" => ~KebabReference(MAPPING[mainIdx].name)
    /\ \A i \in DOMAIN MAPPING : i < mainIdx => KebabReference(MAPPING[i].name)

\* C19: the registry is partial: get_pin returns a pin only for a topic
\* derived from the mapping and raises for every other topic, one of another
\* root with a configured last segment included; get_topic returns a topic
\* only for a pin of the mapping.
C19_RegistryIsPartial ==
    /\ om.pc # "idle" => om.topic \in ConfiguredTopics
    /\ error = "get_pin:KeyError" => om.topic \notin ConfiguredTopics
    /\ \A pin \in AllPins \cup {0} :
           get_topic(pin).ok => \E i \in DOMAIN MAPPING : MAPPING[i].pin = pin

\* the message on_message is running for, or has raised for
HandledPayload == om.payload
Accepted == om.pc # "idle"
Rejected ==
    /\ om.pc = "idle"
    /\ om.last = "raised"
    /\ error \in {"on_message:ValueError", "on_message:UnicodeDecodeError"}

\* C20 as stated: a payload among "1", "on", "true" yields the high target
\* and one among "0", "off", "false" the low target, neither is rejected, and
\* no payload outside the two sets is accepted.
C20_PayloadParsing ==
    /\ Accepted => /\ HandledPayload \in {"1", "on", "true", "0", "off", "false"}
                   /\ om.target_state = (HandledPayload \in {"1", "on", "true"})
    /\ Rejected => HandledPayload \notin {"1", "on", "true", "0", "off", "false"}

\* C20, amended: a payload among "1", "on", "true", "True" yields the high
\* target and one among "0", "off", "false", "False" the low target, neither
\* is rejected, and no payload outside the two sets is accepted.
C20_PayloadParsingAmended ==
    /\ Accepted =>
         /\ HandledPayload \in
                {"1", "on", "true", "True", "0", "off", "false", "False"}
         /\ om.target_state = (HandledPayload \in {"1", "on", "true", "True"})
    /\ Rejected =>
         HandledPayload \notin
             {"1", "on", "true", "True", "0", "off", "false", "False"}

\* the capitalised token has been accepted and is about to be written
C20_Witness ==
    /\ om.pc = "write"
    /\ om.payload = "True"
    /\ om.target_state

\* C21: handshake ordering: on_message reaches its PI.write only through the
\* step that sets DISABLE_PIN_CALLBACK of the pin to true, and every PI.write
\* is made from there, so the flag is set before the write is issued.
C21_FlagSetBeforeWrite ==
    /\ [][(om.pc # "write" /\ om'.pc = "write")
            => /\ om.pc = "arm"
               /\ om'.gpio = om.gpio
               /\ DictGet(DISABLE_PIN_CALLBACK', om.gpio, FALSE)
               /\ writes' = writes]_vars
    /\ [][writes' # writes => om.pc = "write"]_vars

C21_Witness ==
    /\ om.pc = "idle"
    /\ om.last = "written"
    /\ writes # <<>>
    /\ DictGet(DISABLE_PIN_CALLBACK, Last(writes).gpio, FALSE)

\* pin_callback is invoked for an edge (not a watchdog notification)
EdgeCallbackBegins == cb.pc = "idle" /\ cb'.pc = "check"

\* C22 as stated: pin_callback invoked for an edge of a pin whose flag is set
\* clears the flag, makes no publish and leaves NEXT_CHANGE of the pin as it
\* was.
C22_SelfEchoFrame ==
    /\ [][(EdgeCallbackBegins /\ Suppressed(cb'.gpio))
            => /\ DictGet(NEXT_CHANGE', cb'.gpio, 0) = DictGet(NEXT_CHANGE, cb'.gpio, 0)
               /\ published' = published]_vars
    /\ [][(cb.pc = "check" /\ Suppressed(cb.gpio) /\ cb' # cb)
            => /\ cb'.pc = "clear"
               /\ UNCHANGED <<NEXT_CHANGE, published>>]_vars
    /\ [][(cb.pc = "clear" /\ cb' # cb)
            => /\ cb'.pc = "idle"
               /\ ~DictGet(DISABLE_PIN_CALLBACK', cb.gpio, FALSE)
               /\ UNCHANGED <<NEXT_CHANGE, published>>]_vars

\* C22, amended: pin_callback invoked for an edge of a pin whose flag is set
\* sets NEXT_CHANGE of the pin to the time of the callback plus COOLDOWN,
\* clears the flag and makes no publish.
C22_SelfEchoFrameAmended ==
    /\ [][(EdgeCallbackBegins /\ Suppressed(cb'.gpio))
            => /\ NEXT_CHANGE' = DictSet(NEXT_CHANGE, cb'.gpio, now + COOLDOWN)
               /\ published' = published]_vars
    /\ [][(cb.pc = "check" /\ Suppressed(cb.gpio) /\ cb' # cb)
            => /\ cb'.pc = "clear"
               /\ UNCHANGED <<NEXT_CHANGE, published>>]_vars
    /\ [][(cb.pc = "clear" /\ cb' # cb)
            => /\ cb'.pc = "idle"
               /\ ~DictGet(DISABLE_PIN_CALLBACK', cb.gpio, FALSE)
               /\ UNCHANGED <<NEXT_CHANGE, published>>]_vars

\* the echo of a write has been suppressed and has recorded the cooldown
C22_Witness ==
    /\ cb.pc = "idle"
    /\ cb.last = "suppressed"
    /\ writes # <<>>
    /\ Last(writes).gpio = cb.gpio
    /\ DictGet(NEXT_CHANGE, cb.gpio, 0) >= Last(writes).at + COOLDOWN
    /\ ~DictGet(DISABLE_PIN_CALLBACK, cb.gpio, FALSE)
    /\ published = <<>>

\* C23: the inbound handler records the cooldown itself: at the step in which
\* on_message makes its PI.write and returns, NEXT_CHANGE of the pin is at
\* least the time of the write plus COOLDOWN, whether or not pin_callback has
\* run for that write.
C23_WriteRecordsCooldown ==
    [][(om.pc = "write" /\ om'.pc = "idle")
        => DictGet(NEXT_CHANGE', om.gpio, 0) >= now + COOLDOWN]_vars

\* on_message has read NEXT_CHANGE of its pin and has not yet returned
AfterCooldownRead == om.pc \in {"sleep", "arm", "write"}

\* C24: from the read of NEXT_CHANGE of the pin by on_message until its
\* write, nothing but on_message itself changes the pin's ledger entry: the
\* deadline stays as read and the flag changes only by on_message setting it.
C24_LedgerEntryStableUntilWrite ==
    /\ [][AfterCooldownRead
            => DictGet(NEXT_CHANGE', om.gpio, 0) = DictGet(NEXT_CHANGE, om.gpio, 0)]_vars
    /\ [][(AfterCooldownRead
             /\ DictGet(DISABLE_PIN_CALLBACK', om.gpio, FALSE)
                    # DictGet(DISABLE_PIN_CALLBACK, om.gpio, FALSE))
            => (om.pc = "arm" /\ om'.pc = "write")]_vars

\* DISABLE_PIN_CALLBACK.get(pin), absent counting as false
Flag(pin) == DictGet(DISABLE_PIN_CALLBACK, pin, FALSE)

\* C25: flag ownership: the flag of a pin goes from false or absent to true
\* only by on_message setting it for the pin of its message, and from true to
\* false only by pin_callback clearing it for the pin of its edge; nothing
\* else changes DISABLE_PIN_CALLBACK, and every entry is one boolean.
C25_FlagOwnership ==
    /\ [](\A pin \in DOMAIN DISABLE_PIN_CALLBACK :
              DISABLE_PIN_CALLBACK[pin] \in BOOLEAN)
    /\ [][\A pin \in AllPins :
              (~Flag(pin) /\ Flag(pin)')
                  => (om.pc = "arm" /\ om.gpio = pin /\ om'.pc = "write")]_vars
    /\ [][\A pin \in AllPins :
              (Flag(pin) /\ ~Flag(pin)')
                  => (cb.pc = "clear" /\ cb.gpio = pin /\ cb'.pc = "idle")]_vars
    /\ [][DISABLE_PIN_CALLBACK' # DISABLE_PIN_CALLBACK
            => \/ (om.pc = "arm" /\ om'.pc = "write" /\ cb' = cb)
               \/ (cb.pc = "clear" /\ cb'.pc = "idle" /\ om' = om)]_vars

\* one pin's flag has been set and cleared while another pin's is set
C25_Witness ==
    /\ cb.pc = "idle"
    /\ cb.last = "suppressed"
    /\ cb.gpio \in DOMAIN DISABLE_PIN_CALLBACK
    /\ ~Flag(cb.gpio)
    /\ \E pin \in AllPins : pin # cb.gpio /\ Flag(pin)

\* C26: the deadline of a pin never moves back: for every pin NEXT_CHANGE of
\* the pin (0 while absent) is non-decreasing along every run, the clock
\* being non-decreasing.
C26_DeadlineMonotone ==
    /\ [][now' >= now]_vars
    /\ [][\A pin \in AllPins :
              DictGet(NEXT_CHANGE', pin, 0) >= DictGet(NEXT_CHANGE, pin, 0)]_vars
    /\ [][\A pin \in DOMAIN NEXT_CHANGE : pin \in DOMAIN NEXT_CHANGE']_vars

\* a deadline that had not yet passed has been replaced by a later one
C26_Witness ==
    \E i \in DOMAIN published :
        /\ published[i].cooling
        /\ DictGet(NEXT_CHANGE, published[i].gpio, 0) > COOLDOWN

\* "/" + root + "/" + hostname + "/gpio/" + name, as the list of its segments
DocumentedTopic(name) == <<"", "homeassistant", HOSTNAME, "gpio", name>>

\* the name of the first entry of the mapping with the pin
NameOf(pin) == MAPPING[Min({i \in DOMAIN MAPPING : MAPPING[i].pin = pin})].name

\* C27: topic derivation is deterministic and has the documented shape: for
\* a pin of the mapping whose name get_topic accepts, get_topic returns
\* /homeassistant/<hostname>/gpio/<name>; every topic main has subscribed and
\* every topic pin_callback has published on is that one, so the calls made
\* for a pin at different times and from the two callers agree.
C27_TopicDeterministic ==
    /\ \A i \in DOMAIN MAPPING :
           get_topic(MAPPING[i].pin).ok
               => get_topic(MAPPING[i].pin).val
                      = DocumentedTopic(NameOf(MAPPING[i].pin))
    /\ \A s \in subscribed :
           \E pin \in callbacks : s.topic = DocumentedTopic(NameOf(pin))
    /\ \A k \in DOMAIN published :
           /\ published[k].topic = DocumentedTopic(NameOf(published[k].gpio))
           /\ \E s \in subscribed : s.topic = published[k].topic

\* main and pin_callback have derived the topic of the same pin
C27_Witness ==
    \E k \in DOMAIN published :
        /\ published[k].topic = DocumentedTopic(NameOf(published[k].gpio))
        /\ \E s \in subscribed : s.topic = published[k].topic

\* C28: a failed publish does not alter the ledger: the step in which
\* pin_callback makes its MQTT.publish call and returns leaves NEXT_CHANGE and
\* DISABLE_PIN_CALLBACK as they were, whether the call succeeded or failed, so
\* after the callback the pin's deadline is the one recorded at its start and
\* the flags are those found.
C28_FailedPublishKeepsLedger ==
    /\ [][(cb.pc = "publish" /\ cb'.pc = "idle")
            => /\ UNCHANGED ledger
               /\ Len(published') = Len(published) + 1]_vars
    /\ [](cb.pc = "publish" => cb.gpio \in DOMAIN NEXT_CHANGE)
    /\ [](\A k \in DOMAIN published : published[k].gpio \in DOMAIN NEXT_CHANGE)

\* an external edge whose publish failed has left its deadline in the ledger
C28_Witness ==
    \E k \in DOMAIN published :
        /\ ~published[k].sent
        /\ published[k].cause = "ext"
        /\ DictGet(NEXT_CHANGE, published[k].gpio, 0) >= COOLDOWN
        /\ cb.pc = "idle"

\* C29: startup wiring: at the step in which main enters MQTT.loop_forever,
\* and for as long as it is there, every entry of the mapping has had its
\* topic subscribed at QoS 1 or more and its pin given a callback; at the
\* step of entry the subscriptions are those of the connection.
C29_StartupWiring ==
    /\ [](mainPc = "loop" =>
            \A i \in DOMAIN MAPPING :
                /\ \E s \in subscribed :
                       /\ s.topic = DocumentedTopic(MAPPING[i].name)
                       /\ s.qos >= 1
                /\ MAPPING[i].pin \in callbacks)
    /\ [][(mainPc # "loop" /\ mainPc' = "loop")
            => session' = {DocumentedTopic(MAPPING[i].name) : i \in DOMAIN MAPPING}]_vars

C29_Witness ==
    /\ mainPc = "loop"
    /\ Len(MAPPING) = 2
    /\ Cardinality(subscribed) = 2
    /\ callbacks = AllPins

\* a write of the bridge to the pin is being made or its edge has not yet been
\* handled to the end by pin_callback
BridgeEdgePending(pin) ==
    \/ (om.pc = "write" /\ om.gpio = pin)
    \/ \E k \in DOMAIN notifications :
           notifications[k].gpio = pin /\ notifications[k].cause = "bridge"
    \/ (cb.pc \in {"check", "clear"} /\ cb.gpio = pin /\ cb.cause = "bridge")

\* C30: whenever the flag of a pin is set, a write of the bridge to that pin
\* is under way or has an edge whose callback has not yet run: the flag is
\* never left set with no edge of the bridge to come.
C30_FlagMeansPendingBridgeEdge ==
    \A pin \in AllPins : Flag(pin) => BridgeEdgePending(pin)

\* the MQTT.publish calls made for a pin
PublishesOf(pin) == {k \in DOMAIN published : published[k].gpio = pin}

\* C31: no amplification: in every reachable state, for each pin, the number
\* of MQTT.publish calls the bridge has made for the pin is at most the
\* number of edges the world outside the bridge has caused on it; the writes
\* of the bridge add no publish.
C31_NoAmplification ==
    \A pin \in AllPins : Cardinality(PublishesOf(pin)) <= edges[pin]

\* C32: the bridge does not revert an external change on its own: a
\* publication of the bridge that the broker hands back to on_message never
\* leads to a PI.write, also when the pin has been changed from outside again
\* between the publish and the delivery.
C32_OwnMessageNeverWrites ==
    [][(echo.own /\ om.pc = "write") => writes' = writes]_vars

\* the value on_message decodes from the bytes of the k-th publication
Returned(k) == decode(Serialised(published[k].payload))

\* C33: payload round trip: the bytes of every state payload pin_callback has
\* published decode to a value that passes the payload check of on_message
\* and gives the target level that was published; a publication handed back
\* to on_message is not rejected for its payload, and the target on_message
\* takes from it is the published level.
C33_PayloadRoundTrip ==
    /\ \A k \in DOMAIN published :
           /\ Returned(k).ok
           /\ Returned(k).val \in ON_VALUES \cup OFF_VALUES
           /\ (Returned(k).val \in ON_VALUES) = published[k].payload
    /\ echo.own =>
           error \notin {"on_message:ValueError", "on_message:UnicodeDecodeError"}
    /\ (echo.own /\ om.pc # "idle") =>
           /\ om.payload = Serialised(published[echo.k].payload)
           /\ om.target_state = published[echo.k].payload

\* a publication of the high level has been handed back and accepted
C33_Witness ==
    /\ echo.own
    /\ published[echo.k].payload
    /\ mainPc = "loop"
    /\ om.pc = "idle"
    /\ om.last = "already in state"

\* C34: bounded wait and termination: the wait on_message computes for a pin
\* never exceeds COOLDOWN, nor does what is left of a sleep; on_message, once
\* it has accepted a command, always gets to its PI.write and returns, and a
\* command it rejects or finds done ends in the step that reads it.
C34_BoundedWaitAndTermination ==
    /\ [](\A pin \in AllPins : time_to_wait(pin) <= COOLDOWN)
    /\ [](om.pc = "sleep" => om.wake - now <= COOLDOWN)
    /\ [][(om.pc = "cooldown" /\ om'.pc = "sleep") => om'.wake - now <= COOLDOWN]_vars
    /\ [][(om.pc = "idle" /\ om'.pc # "idle") => om'.pc = "cooldown"]_vars
    /\ (om.pc # "idle") ~> (om.pc = "idle" /\ om.last = "written")

\* on_message sleeps with the whole of COOLDOWN still to wait
C34_Witness ==
    /\ om.pc = "sleep"
    /\ om.wake - now = COOLDOWN
    /\ now > 0

\* the level a command asks for
TargetLevel(target_state) == IF target_state THEN ON ELSE OFF

\* C35: convergence: on_message keeps the pin, the level read and the target
\* it decided from the payload until it returns, without reading the pin
\* again; its PI.write leaves the pin at the target level; and a level
\* changes only by a PI.write to the pin or by an external edge on it, so
\* that with no external edge after the write the pin stays at the target of
\* the command.
C35_WriteConverges ==
    /\ [][(om.pc # "idle" /\ om'.pc # "idle")
            => /\ om'.gpio = om.gpio
               /\ om'.read = om.read
               /\ om'.target_state = om.target_state
               /\ om'.target_state = (decode(om.payload).val \in ON_VALUES)]_vars
    /\ [][(om.pc = "write" /\ om'.pc = "idle")
            => /\ level'[om.gpio] = TargetLevel(om.target_state)
               /\ Last(writes').gpio = om.gpio
               /\ Last(writes').level = TargetLevel(om.target_state)]_vars
    /\ [][\A pin \in AllPins :
              level'[pin] # level[pin]
                  => \/ edges'[pin] = edges[pin] + 1
                     \/ (om.pc = "write" /\ om.gpio = pin /\ om'.pc = "idle")]_vars

\* a command that had read the pin low has written it high after the pin had
\* been driven high from outside, and the pin is high
C35_Witness ==
    /\ om.pc = "idle"
    /\ om.last = "written"
    /\ Len(writes) = 1
    /\ edges[Last(writes).gpio] = 1
    /\ Last(writes).level = ON
    /\ level[Last(writes).gpio] = ON

\* the pin a step of on_message is made for: none when the message is
\* rejected or finds the pin in the target state
MessagePins ==
    IF om.pc # "idle" THEN {om.gpio}
    ELSE IF om'.pc # "idle" THEN {om'.gpio}
    ELSE {}
MessageStep == om' # om

\* the pin a step of pin_callback is made for
CallbackPins ==
    IF cb.pc # "idle" THEN {cb.gpio} ELSE {Head(notifications).gpio}
CallbackStep ==
    \/ (cb.pc = "idle" /\ notifications # <<>> /\ notifications' = Tail(notifications))
    \/ (cb.pc # "idle" /\ cb' # cb)

\* the step leaves pin q alone: its ledger entries, its level, no PI.write to
\* it and no MQTT.publish for it or on its topic
Untouched(q) ==
    /\ (q \in DOMAIN NEXT_CHANGE') = (q \in DOMAIN NEXT_CHANGE)
    /\ DictGet(NEXT_CHANGE', q, 0) = DictGet(NEXT_CHANGE, q, 0)
    /\ (q \in DOMAIN DISABLE_PIN_CALLBACK') = (q \in DOMAIN DISABLE_PIN_CALLBACK)
    /\ DictGet(DISABLE_PIN_CALLBACK', q, FALSE) = DictGet(DISABLE_PIN_CALLBACK, q, FALSE)
    /\ level'[q] = level[q]
    /\ (writes' # writes => Last(writes').gpio # q)
    /\ (published' # published =>
            /\ Last(published').gpio # q
            /\ get_topic(q).ok => Last(published').topic # get_topic(q).val)

\* C36: cross-pin isolation: a step of on_message for a command for pin p, and
\* a step of pin_callback for an edge or watchdog notification for pin p,
\* leaves NEXT_CHANGE[q] and DISABLE_PIN_CALLBACK[q] as they were, writes no
\* level to q and publishes nothing on the topic of q, for every pin q other
\* than p.
C36_CrossPinIsolation ==
    /\ [][MessageStep => \A q \in AllPins \ MessagePins : Untouched(q)]_vars
    /\ [][CallbackStep => \A q \in AllPins \ CallbackPins : Untouched(q)]_vars

\* a command has armed and written one pin and an edge of the other pin has
\* been published, each leaving the other pin's entries alone
C36_Witness ==
    /\ writes # <<>>
    /\ published # <<>>
    /\ Last(writes).gpio # Last(published).gpio
    /\ Last(writes).gpio \notin DOMAIN NEXT_CHANGE
    /\ Last(published).gpio \notin DOMAIN DISABLE_PIN_CALLBACK
    /\ Flag(Last(writes).gpio)

====
